---- MODULE Spec2Model ----
(***************************************************************************)
(* A model of the POSIX launcher of the Mesos containerizer                *)
(* (src/slave/containerizer/mesos/launcher.cpp): the registry `pids` of    *)
(* forked children and the operations recover, fork, destroy, _destroy     *)
(* and status of PosixLauncher.                                            *)
(*                                                                         *)
(* The collaborators (subprocess, os::killtree, process::reap) are the     *)
(* environment: what they return is an input of the action that calls      *)
(* them, and each call is recorded in `last`, the record of the most       *)
(* recent call into the launcher.                                          *)
(***************************************************************************)
EXTENDS Integers, Sequences, FiniteSets, Bags, TLC

\* ---------------------------------------------------------------- bounds
\* pids the operating system hands out: 1..MaxPid
MaxPid == 2
\* longest list of ContainerState handed to recover
MaxStates == 3
\* most destroy futures outstanding (not yet reaped) at one time
MaxDestroys == 2

ContainerIds == {"A", "B", "C"}
Pids == 1..MaxPid

\* ------------------------------------------------------ values and types
\* Option<T>
None == <<>>
Some(v) == <<v>>

\* Try<T> and the ready / failed states of a Future<T>; a message is the
\* sequence of the parts the code concatenates.
Error(message) == [isError |-> TRUE, error |-> message, value |-> None]
Ok(v) == [isError |-> FALSE, error |-> <<>>, value |-> v]

\* Future<Option<int>> as returned by process::reap
Pending == [state |-> "PENDING", value |-> None, failure |-> ""]
Ready(v) == [state |-> "READY", value |-> v, failure |-> ""]
Failed(cause) == [state |-> "FAILED", value |-> None, failure |-> cause]
Discarded == [state |-> "DISCARDED", value |-> None, failure |-> ""]

\* the value of Future<Nothing> / the empty hashset<ContainerID>
Nothing == "Nothing"

\* the registry with no entry
EmptyPids == [c \in {} |-> 0]

\* the pids held as values of a registry
Values(p) == {p[c] : c \in DOMAIN p}

\* ---------------------------------------------------------------- inputs
\* list<ContainerState>: every list of at most MaxStates (container_id, pid)
ContainerState == [container_id : ContainerIds, pid : Pids]
StateLists == UNION {[1..n -> ContainerState] : n \in 0..MaxStates}

\* Option<int> namespaces: none, zero, a non-zero set of CLONE_NEW* flags
Namespaces == {None, Some(0), Some(1)}

\* Try<Subprocess>: an error, or a child with a pid
Children == {Error(<<"spawn error">>)} \cup {Ok(pid) : pid \in Pids}

\* Try<list<os::ProcessTree>>: os::killtree succeeded or failed
Trees == {Error(<<"killtree error">>), Ok("trees")}

\* what a reap future resolves to: an exit status (exited 0, killed by
\* signal 9), no status, a failure, or a discard
ReapOutcomes ==
  {Ready(Some(0)), Ready(Some(9)), Ready(None), Failed("reap error"), Discarded}

\* ----------------------------------------------------------------- paths
\* most ancestors of a nested ContainerID
MaxDepth == 2

Labels == {"a", "b", "c"}

\* ContainerID with its optional parent: the identities with at most depth
\* ancestors
RECURSIVE NestedIds(_)
NestedIds(depth) ==
  IF depth = 0
  THEN {[value |-> v, parent |-> None] : v \in Labels}
  ELSE LET shallower == NestedIds(depth - 1)
       IN shallower \cup
          {[value |-> v, parent |-> Some(q)] : v \in Labels, q \in shallower}

\* the prefixes buildPathFromHierarchy is called with
Prefixes == {"containers", "p"}

\* flags.runtime_dir
RuntimeDir == <<"var", "run", "mesos">>

\* path::join: a path is the sequence of its segments, and joining paths
\* puts them one after the other with a separator between them
RECURSIVE join(_)
join(paths) ==
  IF paths = <<>> THEN <<>> ELSE Head(paths) \o join(Tail(paths))

\* buildPathFromHierarchy whose loop puts each ancestor after the path
RECURSIVE hierarchyLoopLeafFirst(_, _, _)
hierarchyLoopLeafFirst(containerId, prefix, p) ==
  IF containerId.parent # None
  THEN LET parent == containerId.parent[1]
       IN hierarchyLoopLeafFirst(parent, prefix,
                                 join(<<p, <<prefix>>, <<parent.value>>>>))
  ELSE p

\* the while loop of buildPathFromHierarchy
RECURSIVE hierarchyLoop(_, _, _)
hierarchyLoop(containerId, prefix, p) ==
  IF containerId.parent # None
  THEN LET parent == containerId.parent[1]
       IN hierarchyLoop(parent, prefix,
                        join(<<<<prefix>>, <<parent.value>>, p>>))
  ELSE p

buildPathFromHierarchy(containerId, prefix) ==
  hierarchyLoop(containerId, prefix, join(<<<<prefix>>, <<containerId.value>>>>))

getExitStatusCheckpointPath(containerId) ==
  join(<<RuntimeDir, <<"launcher">>, <<"posix">>,
         buildPathFromHierarchy(containerId, "containers"),
         <<"exit_status">>>>)

NoPath ==
  [containerId |-> [value |-> "a", parent |-> None], prefix |-> "containers",
   hierarchy |-> None, checkpoint |-> None]

\* ----------------------------------------------------------------- state
VARIABLES
  pids,     \* hashmap<ContainerID, pid_t> PosixLauncher::pids
  reaping,  \* bag of the pids whose destroy future still waits on process::reap
  trusted,  \* every child spawned so far had a pid not held in the registry
  last,     \* the most recent call: its inputs, result and collaborator calls
  path      \* a call of getExitStatusCheckpointPath: its arguments and result

vars == <<pids, reaping, trusted, last, path>>

NoCall ==
  [op |-> "create", containerId |-> "-", namespaces |-> None, states |-> <<>>,
   child |-> None, trees |-> None, future |-> Pending, pid |-> 0,
   result |-> Ok(Nothing), before |-> EmptyPids,
   spawned |-> <<>>, killed |-> <<>>, reaped |-> <<>>, steps |-> <<>>,
   waiting |-> EmptyBag]

\* PosixLauncher::create: an empty registry
Init ==
  /\ pids = EmptyPids
  /\ reaping = EmptyBag
  /\ trusted = TRUE
  /\ last = NoCall
  /\ path = NoPath

\* --------------------------------------------------------------- recover
\* recover without the containsValue check
RECURSIVE recoverLoopNoCheck(_, _, _)
recoverLoopNoCheck(p, states, i) ==
  IF i > Len(states)
  THEN [pids |-> p, result |-> Ok({})]
  ELSE recoverLoopNoCheck(
         [c \in DOMAIN p \cup {states[i].container_id} |->
            IF c = states[i].container_id THEN states[i].pid ELSE p[c]],
         states, i + 1)

\* recover whose loop stops one entry early
RECURSIVE recoverLoopSkipsLast(_, _, _)
recoverLoopSkipsLast(p, states, i) ==
  IF i >= Len(states)
  THEN [pids |-> p, result |-> Ok({})]
  ELSE LET containerId == states[i].container_id
           pid == states[i].pid
       IN IF pid \in Values(p)
          THEN [pids |-> p,
                result |-> Error(<<"Detected duplicate pid ", pid,
                                   " for container ", containerId>>)]
          ELSE recoverLoopSkipsLast(
                 [c \in DOMAIN p \cup {containerId} |->
                    IF c = containerId THEN pid ELSE p[c]],
                 states, i + 1)

\* the foreach loop of recover from entry i on
RECURSIVE recoverLoop(_, _, _)
recoverLoop(p, states, i) ==
  IF i > Len(states)
  THEN [pids |-> p, result |-> Ok({})]
  ELSE LET containerId == states[i].container_id
           pid == states[i].pid
       IN IF pid \in Values(p)
          THEN [pids |-> p,
                result |-> Error(<<"Detected duplicate pid ", pid,
                                   " for container ", containerId>>)]
          ELSE recoverLoop(
                 [c \in DOMAIN p \cup {containerId} |->
                    IF c = containerId THEN pid ELSE p[c]],
                 states, i + 1)

recover(p, states) == recoverLoop(p, states, 1)

\* The agent recovers once, right after it created the launcher.
Startup == last.op = "create"

Recover(states) ==
  /\ Startup
  /\ LET r == recover(pids, states)
     IN /\ pids' = r.pids
        /\ last' = [NoCall EXCEPT !.op = "recover", !.states = states,
                                  !.result = r.result, !.before = pids]
  /\ UNCHANGED <<reaping, trusted, path>>

\* ------------------------------------------------------------------ fork
\* fork without the pids.contains check: a second fork replaces the entry
forkReplaces(p, containerId, namespaces, child) ==
  IF namespaces # None /\ namespaces[1] # 0
  THEN [pids |-> p,
        result |-> Error(<<"Posix launcher does not support namespaces">>),
        spawned |-> <<>>]
  ELSE IF child.isError
  THEN [pids |-> p,
        result |-> Error(<<"Failed to fork a child process: ">> \o child.error),
        spawned |-> <<"SETSID">>]
  ELSE [pids |-> [c \in DOMAIN p \cup {containerId} |->
                    IF c = containerId THEN child.value ELSE p[c]],
        result |-> Ok(child.value),
        spawned |-> <<"SETSID">>]

\* fork with its two validations in the other order
forkChecksEntryFirst(p, containerId, namespaces, child) ==
  IF containerId \in DOMAIN p
  THEN [pids |-> p,
        result |-> Error(<<"Process has already been forked for container ",
                           containerId>>),
        spawned |-> <<>>]
  ELSE IF namespaces # None /\ namespaces[1] # 0
  THEN [pids |-> p,
        result |-> Error(<<"Posix launcher does not support namespaces">>),
        spawned |-> <<>>]
  ELSE IF child.isError
  THEN [pids |-> p,
        result |-> Error(<<"Failed to fork a child process: ">> \o child.error),
        spawned |-> <<"SETSID">>]
  ELSE [pids |-> [c \in DOMAIN p \cup {containerId} |->
                    IF c = containerId THEN child.value ELSE p[c]],
        result |-> Ok(child.value),
        spawned |-> <<"SETSID">>]

\* fork that registers the identity before it looks at what subprocess
\* returned
forkRegistersFirst(p, containerId, namespaces, child) ==
  IF namespaces # None /\ namespaces[1] # 0
  THEN [pids |-> p,
        result |-> Error(<<"Posix launcher does not support namespaces">>),
        spawned |-> <<>>]
  ELSE IF containerId \in DOMAIN p
  THEN [pids |-> p,
        result |-> Error(<<"Process has already been forked for container ",
                           containerId>>),
        spawned |-> <<>>]
  ELSE LET q == [c \in DOMAIN p \cup {containerId} |->
                   IF c = containerId
                   THEN (IF child.isError THEN 0 ELSE child.value)
                   ELSE p[c]]
       IN IF child.isError
          THEN [pids |-> q,
                result |-> Error(<<"Failed to fork a child process: ">>
                                 \o child.error),
                spawned |-> <<"SETSID">>]
          ELSE [pids |-> q, result |-> Ok(child.value), spawned |-> <<"SETSID">>]

\* fork that calls subprocess before it looks the identity up
forkSpawnsFirst(p, containerId, namespaces, child) ==
  IF namespaces # None /\ namespaces[1] # 0
  THEN [pids |-> p,
        result |-> Error(<<"Posix launcher does not support namespaces">>),
        spawned |-> <<>>]
  ELSE IF child.isError
  THEN [pids |-> p,
        result |-> Error(<<"Failed to fork a child process: ">> \o child.error),
        spawned |-> <<"SETSID">>]
  ELSE IF containerId \in DOMAIN p
  THEN [pids |-> p,
        result |-> Error(<<"Process has already been forked for container ",
                           containerId>>),
        spawned |-> <<"SETSID">>]
  ELSE [pids |-> [c \in DOMAIN p \cup {containerId} |->
                    IF c = containerId THEN child.value ELSE p[c]],
        result |-> Ok(child.value),
        spawned |-> <<"SETSID">>]

\* fork as a function of the registry, its arguments and what subprocess
\* would return: the registry afterwards, the result and the calls made to
\* subprocess.
fork(p, containerId, namespaces, child) ==
  IF namespaces # None /\ namespaces[1] # 0
  THEN [pids |-> p,
        result |-> Error(<<"Posix launcher does not support namespaces">>),
        spawned |-> <<>>]
  ELSE IF containerId \in DOMAIN p
  THEN [pids |-> p,
        result |-> Error(<<"Process has already been forked for container ",
                           containerId>>),
        spawned |-> <<>>]
  ELSE IF child.isError
  THEN [pids |-> p,
        result |-> Error(<<"Failed to fork a child process: ">> \o child.error),
        spawned |-> <<"SETSID">>]
  ELSE [pids |-> [c \in DOMAIN p \cup {containerId} |->
                    IF c = containerId THEN child.value ELSE p[c]],
        result |-> Ok(child.value),
        spawned |-> <<"SETSID">>]

\* fork that turns an identity away while a destroy future is outstanding
ForkWaitsForReap(containerId, namespaces, child) ==
  /\ ~Startup
  /\ LET r == IF reaping = EmptyBag
              THEN fork(pids, containerId, namespaces, child)
              ELSE [pids |-> pids,
                    result |-> Error(<<"Process has already been forked for container ",
                                       containerId>>),
                    spawned |-> <<>>]
     IN /\ pids' = r.pids
        /\ trusted' = (trusted /\ (~r.result.isError => child.value \notin Values(pids)))
        /\ last' = [NoCall EXCEPT !.op = "fork", !.containerId = containerId,
                                  !.namespaces = namespaces, !.child = child,
                                  !.result = r.result, !.before = pids,
                                  !.spawned = r.spawned, !.waiting = reaping]
  /\ UNCHANGED <<reaping, path>>

Fork(containerId, namespaces, child) ==
  /\ ~Startup
  /\ LET r == fork(pids, containerId, namespaces, child)
     IN /\ pids' = r.pids
        /\ trusted' = (trusted /\ (~r.result.isError => child.value \notin Values(pids)))
        /\ last' = [NoCall EXCEPT !.op = "fork", !.containerId = containerId,
                                  !.namespaces = namespaces, !.child = child,
                                  !.result = r.result, !.before = pids,
                                  !.spawned = r.spawned, !.waiting = reaping]
  /\ UNCHANGED <<reaping, path>>

\* --------------------------------------------------------------- destroy
\* a kill of the process group alone, with a signal the child can ignore
killtreeGroupOnly(pid) ==
  [pid |-> pid, signal |-> "SIGTERM", groups |-> TRUE, sessions |-> FALSE]

\* the message os::killtree gets: pid, signal, groups, sessions
killtree(pid) == [pid |-> pid, signal |-> "SIGKILL", groups |-> TRUE, sessions |-> TRUE]

\* destroy without pids.erase
destroyKeepsEntry(p, containerId, trees) ==
  IF containerId \notin DOMAIN p
  THEN [pids |-> p, result |-> Error(<<"Unknown container ", containerId>>),
        killed |-> <<>>, reaped |-> <<>>, steps |-> <<>>]
  ELSE [pids |-> p,
        result |-> Ok(Pending),
        killed |-> <<killtree(p[containerId])>>,
        reaped |-> <<p[containerId]>>,
        steps |-> <<"killtree", "reap">>]

\* destroy that takes an identity with no entry for one already destroyed
destroyIdempotent(p, containerId, trees) ==
  IF containerId \notin DOMAIN p
  THEN [pids |-> p, result |-> Ok(Ready(Nothing)),
        killed |-> <<>>, reaped |-> <<>>, steps |-> <<>>]
  ELSE [pids |-> [c \in DOMAIN p \ {containerId} |-> p[c]],
        result |-> Ok(Pending),
        killed |-> <<killtree(p[containerId])>>,
        reaped |-> <<p[containerId]>>,
        steps |-> <<"killtree", "erase", "reap">>]

\* destroy that gives up when os::killtree failed
destroyFailsOnKillError(p, containerId, trees) ==
  IF containerId \notin DOMAIN p
  THEN [pids |-> p, result |-> Error(<<"Unknown container ", containerId>>),
        killed |-> <<>>, reaped |-> <<>>, steps |-> <<>>]
  ELSE IF trees.isError
  THEN [pids |-> p,
        result |-> Error(<<"Failed to kill all processes: ">> \o trees.error),
        killed |-> <<killtree(p[containerId])>>, reaped |-> <<>>,
        steps |-> <<"killtree">>]
  ELSE [pids |-> [c \in DOMAIN p \ {containerId} |-> p[c]],
        result |-> Ok(Pending),
        killed |-> <<killtree(p[containerId])>>,
        reaped |-> <<p[containerId]>>,
        steps |-> <<"killtree", "erase", "reap">>]

\* destroy that returns a future nothing will ever settle: no process::reap
destroyForgetsReap(p, containerId, trees) ==
  IF containerId \notin DOMAIN p
  THEN [pids |-> p, result |-> Error(<<"Unknown container ", containerId>>),
        killed |-> <<>>, reaped |-> <<>>, steps |-> <<>>]
  ELSE [pids |-> [c \in DOMAIN p \ {containerId} |-> p[c]],
        result |-> Ok(Pending),
        killed |-> <<killtree(p[containerId])>>,
        reaped |-> <<>>,
        steps |-> <<"killtree", "erase">>]

\* destroy as a function of the registry, its argument and what os::killtree
\* would return (trees, which the code never reads): the registry
\* afterwards, the requests to os::killtree and process::reap, the order of
\* its steps, and whether it returned a failure or the (pending) future
\* chained on the reap.
destroy(p, containerId, trees) ==
  IF containerId \notin DOMAIN p
  THEN [pids |-> p, result |-> Error(<<"Unknown container ", containerId>>),
        killed |-> <<>>, reaped |-> <<>>, steps |-> <<>>]
  ELSE LET pid == p[containerId]
       IN [pids |-> [c \in DOMAIN p \ {containerId} |-> p[c]],
           result |-> Ok(Pending),
           killed |-> <<killtree(pid)>>,
           reaped |-> <<pid>>,
           steps |-> <<"killtree", "erase", "reap">>]

Destroy(containerId, trees) ==
  /\ ~Startup
  /\ containerId \in DOMAIN pids => BagCardinality(reaping) < MaxDestroys
  /\ LET r == destroy(pids, containerId, trees)
     IN /\ pids' = r.pids
        /\ reaping' = reaping (+) SetToBag({r.reaped[i] : i \in 1..Len(r.reaped)})
        /\ last' = [NoCall EXCEPT !.op = "destroy", !.containerId = containerId,
                                  !.trees = IF r.killed = <<>> THEN None ELSE trees,
                                  !.result = r.result, !.before = pids,
                                  !.killed = r.killed, !.reaped = r.reaped,
                                  !.steps = r.steps, !.waiting = reaping]
  /\ UNCHANGED <<trusted, path>>

\* a continuation that takes a child killed by a signal for a failure
_destroyChecksStatus(future) ==
  IF future.state = "READY" /\ future.value # Some(9)
  THEN Ok(Nothing)
  ELSE Error(<<"Failed to kill all processes: ",
               IF future.state = "FAILED" THEN future.failure ELSE "unknown error">>)

\* a continuation that hands on the failure of the wait as it is
_destroyRaw(future) ==
  IF future.state = "READY"
  THEN Ok(Nothing)
  ELSE Error(<<future.failure>>)

\* the continuation of the reap future
_destroy(future) ==
  IF future.state = "READY"
  THEN Ok(Nothing)
  ELSE Error(<<"Failed to kill all processes: ",
               IF future.state = "FAILED" THEN future.failure ELSE "unknown error">>)

\* Future::then as destroy uses it, with _destroy bound as the continuation:
\* once the future it is chained on has left PENDING, the continuation gets
\* that future and its result is the result of the chained future.
then(future) == _destroy(future)

\* one promise shared by every destroy: settling one wait settles them all
ReapedAll(pid, future) ==
  /\ BagIn(pid, reaping)
  /\ reaping' = EmptyBag
  /\ last' = [NoCall EXCEPT !.op = "_destroy", !.pid = pid,
                            !.future = future,
                            !.result = then(future), !.before = pids,
                            !.waiting = reaping]
  /\ UNCHANGED <<pids, trusted, path>>

\* process::reap settles one outstanding wait for pid; the continuation runs.
Reaped(pid, future) ==
  /\ BagIn(pid, reaping)
  /\ reaping' = reaping (-) SetToBag({pid})
  /\ last' = [NoCall EXCEPT !.op = "_destroy", !.pid = pid,
                            !.future = future,
                            !.result = then(future), !.before = pids,
                            !.waiting = reaping]
  /\ UNCHANGED <<pids, trusted, path>>

\* ---------------------------------------------------------------- status
\* status without the pids.contains check: operator[] makes up a pid
statusDefault(p, containerId) ==
  IF containerId \notin DOMAIN p
  THEN Ok([executor_pid |-> 0])
  ELSE Ok([executor_pid |-> p[containerId]])

\* status that reads pids[containerId] without the pids.contains check:
\* operator[] inserts the missing key
StatusInserts(containerId) ==
  /\ ~Startup
  /\ pids' = [c \in DOMAIN pids \cup {containerId} |->
                IF c \in DOMAIN pids THEN pids[c] ELSE 0]
  /\ last' = [NoCall EXCEPT !.op = "status", !.containerId = containerId,
                            !.result = Ok([executor_pid |-> pids'[containerId]]),
                            !.before = pids, !.waiting = reaping]
  /\ UNCHANGED <<reaping, trusted, path>>

status(p, containerId) ==
  IF containerId \notin DOMAIN p
  THEN Error(<<"Container does not exist!">>)
  ELSE Ok([executor_pid |-> p[containerId]])

Status(containerId) ==
  /\ ~Startup
  /\ last' = [NoCall EXCEPT !.op = "status", !.containerId = containerId,
                            !.result = status(pids, containerId),
                            !.before = pids, !.waiting = reaping]
  /\ UNCHANGED <<pids, reaping, trusted, path>>

\* ------------------------------------------------------------------ next
Next ==
  \/ Startup /\ \E states \in StateLists : Recover(states)
  \/ \E containerId \in ContainerIds, namespaces \in Namespaces, child \in Children :
       Fork(containerId, namespaces, child)
  \/ \E containerId \in ContainerIds, trees \in Trees : Destroy(containerId, trees)
  \/ \E pid \in Pids, future \in ReapOutcomes : Reaped(pid, future)
  \/ \E containerId \in ContainerIds : Status(containerId)

Spec == Init /\ [][Next]_vars

\* process::reap settles every wait it was asked for, sooner or later.
FairSpec ==
  /\ Spec
  /\ \A pid \in Pids : WF_vars(\E future \in ReapOutcomes : Reaped(pid, future))

\* ------------------------------------------------- the paths on their own
\* any identity and prefix, no path derived yet
InitPath ==
  /\ pids = EmptyPids
  /\ reaping = EmptyBag
  /\ trusted = TRUE
  /\ last = NoCall
  /\ path \in [containerId : NestedIds(MaxDepth), prefix : Prefixes,
               hierarchy : {None}, checkpoint : {None}]

BuildPathFromHierarchy ==
  /\ path.hierarchy = None
  /\ path' = [path EXCEPT
               !.hierarchy = Some(buildPathFromHierarchy(path.containerId, path.prefix))]
  /\ UNCHANGED <<pids, reaping, trusted, last>>

GetExitStatusCheckpointPath ==
  /\ path.checkpoint = None
  /\ path' = [path EXCEPT
               !.checkpoint = Some(getExitStatusCheckpointPath(path.containerId))]
  /\ UNCHANGED <<pids, reaping, trusted, last>>

NextPath == BuildPathFromHierarchy \/ GetExitStatusCheckpointPath

SpecPath == InitPath /\ [][NextPath]_vars

\* ---------------------------------------------------------------- claims
\* the error a result carries, by the text its message starts with
Fails(result, text) == result.isError /\ result.error[1] = text

CapabilityUnsupported(result) ==
  Fails(result, "Posix launcher does not support namespaces")
AlreadyLaunched(result) ==
  Fails(result, "Process has already been forked for container ")
LaunchFailed(result) == Fails(result, "Failed to fork a child process: ")
UnknownContainer(result) == Fails(result, "Unknown container ")
NotFound(result) == Fails(result, "Container does not exist!")
DuplicateHandle(result) == Fails(result, "Detected duplicate pid ")

\* the call asked for namespace isolation
WantsNamespaces(namespaces) == namespaces # None /\ namespaces[1] # 0

\* the last call was op on an identity that was registered when it began
On(op) == last.op = op
Registered == last.containerId \in DOMAIN last.before

\* C1 as claimed: every fork on an identity that already has an entry fails
\* with the already-launched error and leaves the registry as it was.
C1_ForkTwiceAlreadyLaunched ==
  (On("fork") /\ Registered) =>
    (AlreadyLaunched(last.result) /\ pids = last.before)

\* C1 as amended: a fork on an identity that already has an entry leaves the
\* registry as it was and fails: with the already-launched error when it asks
\* for no namespace isolation, with the capability-unsupported error when it
\* does.
C1_ForkTwiceFails ==
  (On("fork") /\ Registered) =>
    /\ pids = last.before
    /\ pids[last.containerId] = last.before[last.containerId]
    /\ last.spawned = <<>>
    /\ IF WantsNamespaces(last.namespaces)
       THEN CapabilityUnsupported(last.result)
       ELSE last.result = Error(<<"Process has already been forked for container ",
                                  last.containerId>>)

C1_Witness ==
  /\ On("fork") /\ Registered
  /\ ~WantsNamespaces(last.namespaces)
  /\ ~last.child.isError
  /\ last.child.value # last.before[last.containerId]
  /\ AlreadyLaunched(last.result)

\* C2: a destroy of a registered identity has erased its entry when it
\* returns, while the future it returned is still pending on the reap.
C2_DestroyErasesSynchronously ==
  (On("destroy") /\ Registered) =>
    /\ last.containerId \notin DOMAIN pids
    /\ ~last.result.isError
    /\ last.result.value.state = "PENDING"
    /\ BagIn(last.before[last.containerId], reaping)

C2_Witness ==
  /\ On("destroy") /\ Registered
  /\ last.containerId \notin DOMAIN pids
  /\ BagIn(last.before[last.containerId], reaping)
  /\ DOMAIN pids # {}

\* two entries of the list name different identities with the same pid
HasDuplicateHandle(states) ==
  \E i, j \in 1..Len(states) :
    /\ states[i].container_id # states[j].container_id
    /\ states[i].pid = states[j].pid

\* C3: a recover on an empty registry whose list has two distinct identities
\* with the same handle fails with the duplicate-handle error and leaves the
\* registry empty.
C3_RecoverAllOrNothing ==
  (On("recover") /\ last.before = EmptyPids /\ HasDuplicateHandle(last.states)) =>
    (DuplicateHandle(last.result) /\ pids = EmptyPids)

C4_WitnessFailed ==
  /\ On("_destroy")
  /\ last.future.state = "FAILED"
  /\ last.result.isError

\* C5: a destroy of an identity with no entry fails with the
\* unknown-container error, leaves the registry as it was and asks neither
\* os::killtree nor process::reap for anything.
C5_DestroyUnknown ==
  (On("destroy") /\ ~Registered) =>
    /\ last.result = Error(<<"Unknown container ", last.containerId>>)
    /\ pids = last.before
    /\ last.killed = <<>>
    /\ last.reaped = <<>>

\* the second of two destroys, the first future still pending
C5_Witness ==
  /\ On("destroy") /\ ~Registered
  /\ UnknownContainer(last.result)
  /\ reaping # EmptyBag
  /\ pids = EmptyPids

\* C6: as long as subprocess has only returned pids that no entry held, no
\* two identities of the registry have the same pid.
Injective(p) == \A c, d \in DOMAIN p : p[c] = p[d] => c = d

C6_OneIdentityPerHandle == trusted => Injective(pids)

C6_Witness ==
  /\ trusted
  /\ On("fork") /\ ~last.result.isError
  /\ last.before # EmptyPids
  /\ Cardinality(DOMAIN pids) = MaxPid

\* the pid of the last entry of the list for an identity
LastPid(states, containerId) ==
  LET at == {i \in 1..Len(states) : states[i].container_id = containerId}
  IN states[CHOOSE i \in at : \A j \in at : j <= i].pid

\* C7: status succeeds exactly for the identities with an entry and returns
\* the registered pid: the one fork returned, the one recover was given.
C7_StatusReturnsRegisteredPid ==
  /\ On("status") =>
       /\ ~last.result.isError <=> last.containerId \in DOMAIN pids
       /\ ~last.result.isError =>
            last.result.value.executor_pid = pids[last.containerId]
       /\ last.result.isError => last.result = Error(<<"Container does not exist!">>)
  /\ (On("fork") /\ ~last.result.isError) =>
       status(pids, last.containerId) =
         Ok([executor_pid |-> last.result.value])
  /\ (On("recover") /\ ~last.result.isError) =>
       \A i \in 1..Len(last.states) :
         status(pids, last.states[i].container_id) =
           Ok([executor_pid |-> LastPid(last.states, last.states[i].container_id)])
  /\ \A c \in ContainerIds : ~status(pids, c).isError <=> c \in DOMAIN pids

C7_Witness ==
  /\ On("status")
  /\ ~last.result.isError
  /\ last.result.value.executor_pid = MaxPid
  /\ Cardinality(DOMAIN pids) > 1

\* C8: a fork that asks for namespace isolation fails with the
\* capability-unsupported error, does not call subprocess and leaves the
\* registry as it was, registered identity or not.
C8_NamespacesUnsupported ==
  (On("fork") /\ WantsNamespaces(last.namespaces)) =>
    /\ last.result = Error(<<"Posix launcher does not support namespaces">>)
    /\ last.spawned = <<>>
    /\ pids = last.before

C8_Witness ==
  /\ On("fork") /\ WantsNamespaces(last.namespaces)
  /\ Registered
  /\ CapabilityUnsupported(last.result)

\* the entries of the list have pairwise distinct identities and pids
Distinct(states) ==
  \A i, j \in 1..Len(states) :
    i # j => /\ states[i].container_id # states[j].container_id
             /\ states[i].pid # states[j].pid

\* C9: a recover on an empty registry with pairwise distinct identities and
\* pairwise distinct pids succeeds, registers exactly the given associations
\* and returns the empty set.
C9_RecoverDistinct ==
  (On("recover") /\ last.before = EmptyPids /\ Distinct(last.states)) =>
    /\ last.result = Ok({})
    /\ DOMAIN pids = {last.states[i].container_id : i \in 1..Len(last.states)}
    /\ Cardinality(DOMAIN pids) = Len(last.states)
    /\ \A i \in 1..Len(last.states) :
         pids[last.states[i].container_id] = last.states[i].pid

C9_Witness ==
  /\ On("recover") /\ Distinct(last.states)
  /\ Len(last.states) = MaxPid
  /\ last.result = Ok({})

\* C10: when subprocess reports an error fork returns the launch-failed
\* error with its diagnostic and the registry is as it was, so the identity
\* can be forked again; when subprocess succeeds fork registers the identity
\* with the pid of the child and returns it.
C10_ForkSpawnOutcome ==
  (On("fork") /\ last.spawned # <<>>) =>
    IF last.child.isError
    THEN /\ last.result =
              Error(<<"Failed to fork a child process: ">> \o last.child.error)
         /\ pids = last.before
         /\ last.containerId \notin DOMAIN pids
         /\ \A child \in Children :
              ~AlreadyLaunched(fork(pids, last.containerId, None, child).result)
    ELSE /\ last.result = Ok(last.child.value)
         /\ DOMAIN pids = DOMAIN last.before \cup {last.containerId}
         /\ pids[last.containerId] = last.child.value
         /\ \A c \in DOMAIN last.before : pids[c] = last.before[c]

C10_Witness ==
  /\ On("fork") /\ last.spawned # <<>>
  /\ LaunchFailed(last.result)
  /\ last.before # EmptyPids

C10_WitnessSuccess ==
  /\ On("fork") /\ last.spawned # <<>>
  /\ ~last.result.isError
  /\ last.before # EmptyPids

\* the labels of an identity and its ancestors, root-most ancestor first
RECURSIVE Ancestry(_)
Ancestry(containerId) ==
  IF containerId.parent = None
  THEN <<containerId.value>>
  ELSE Append(Ancestry(containerId.parent[1]), containerId.value)

\* C11: the path derived for an identity with N ancestors and a prefix p is
\* p/root/p/.../p/leaf: the N+1 labels from the root-most ancestor to the
\* leaf, each right after a segment p; the checkpoint path nests the same
\* way under the runtime directory.
C11_PathFromHierarchy ==
  /\ path.hierarchy # None =>
       LET labels == Ancestry(path.containerId)
           derived == path.hierarchy[1]
       IN /\ Len(derived) = 2 * Len(labels)
          /\ \A k \in 1..Len(labels) :
               /\ derived[2 * k - 1] = path.prefix
               /\ derived[2 * k] = labels[k]
          /\ derived[Len(derived)] = path.containerId.value
          /\ path.containerId.parent = None =>
               derived = <<path.prefix, path.containerId.value>>
  /\ path.checkpoint # None =>
       LET labels == Ancestry(path.containerId)
           derived == path.checkpoint[1]
           base == Len(RuntimeDir) + 2
       IN /\ Len(derived) = base + 2 * Len(labels) + 1
          /\ SubSeq(derived, 1, base) = RuntimeDir \o <<"launcher", "posix">>
          /\ \A k \in 1..Len(labels) :
               /\ derived[base + 2 * k - 1] = "containers"
               /\ derived[base + 2 * k] = labels[k]
          /\ derived[Len(derived)] = "exit_status"

C11_Witness ==
  /\ path.hierarchy # None
  /\ path.checkpoint # None
  /\ Len(Ancestry(path.containerId)) = MaxDepth + 1
  /\ path.containerId.value # path.containerId.parent[1].value
  /\ path.prefix = "p"

\* entry j of the list has the pid of an earlier entry for another identity
DuplicateAt(states, j) ==
  \E i \in 1..(j - 1) :
    /\ states[i].pid = states[j].pid
    /\ states[i].container_id # states[j].container_id

\* C12: recover fails with the duplicate-handle error if and only if some
\* entry has the pid of an earlier entry for a different identity (an entry
\* that repeats an earlier one is no duplicate), and the error names that
\* pid and the identity being processed.
C12_DuplicateIffOtherIdentity ==
  On("recover") =>
    /\ DuplicateHandle(last.result) <=>
         \E j \in 1..Len(last.states) : DuplicateAt(last.states, j)
    /\ DuplicateHandle(last.result) =>
         \E j \in 1..Len(last.states) :
           /\ DuplicateAt(last.states, j)
           /\ last.result.error[2] = last.states[j].pid
           /\ last.result.error[4] = last.states[j].container_id

\* the text of the teardown-failed error
TeardownFailed(result) == Fails(result, "Failed to kill all processes: ")

C14_KillTreeResultIgnored ==
  (On("destroy") /\ Registered) =>
    /\ \A trees \in Trees :
         LET r == destroy(last.before, last.containerId, trees)
         IN /\ r.pids = pids
            /\ r.reaped = last.reaped
            /\ r.killed = last.killed
            /\ r.result = last.result
    /\ last.containerId \notin DOMAIN pids
    /\ last.reaped = <<last.before[last.containerId]>>
    /\ last.result = Ok(Pending)

C14_Witness ==
  /\ On("destroy") /\ Registered
  /\ last.trees = Error(<<"killtree error">>)
  /\ last.containerId \notin DOMAIN pids
  /\ last.result = Ok(Pending)

\* an entry of q that p lacks or has with another pid
Added(p, q) == {c \in DOMAIN q : c \notin DOMAIN p \/ p[c] # q[c]}
\* an entry of p that q lacks
Removed(p, q) == DOMAIN p \ DOMAIN q

\* C15: an entry is added only by a fork that succeeds or by recover and
\* removed only by destroy; status, a fork that fails, a destroy that fails
\* and the settling of a destroy future leave the registry as it was.
C15_RegistryFrame ==
  /\ Added(last.before, pids) # {} =>
       \/ On("recover")
       \/ On("fork") /\ ~last.result.isError
  /\ Removed(last.before, pids) # {} =>
       On("destroy") /\ ~last.result.isError
  /\ On("status") => pids = last.before
  /\ (On("fork") /\ last.result.isError) => pids = last.before
  /\ (On("destroy") /\ last.result.isError) => pids = last.before
  /\ On("_destroy") => pids = last.before
  /\ On("create") => pids = EmptyPids

\* a destroy future failed and the destroyed entry stays erased
C15_Witness ==
  /\ On("_destroy")
  /\ TeardownFailed(last.result)
  /\ pids = last.before
  /\ pids = EmptyPids

\* C16: when destroy returns, the entry is erased while the future is still
\* pending, and a fork on the same identity is accepted from then on: a fork
\* is accepted or turned away whatever destroy futures are outstanding.
C16_EraseBeforeResolveAndFork ==
  /\ (On("destroy") /\ Registered) =>
       /\ last.containerId \notin DOMAIN pids
       /\ BagIn(last.before[last.containerId], reaping)
       /\ last.steps = <<"killtree", "erase", "reap">>
       /\ \A child \in Children :
            LET r == fork(pids, last.containerId, None, child)
            IN /\ r.spawned # <<>>
               /\ ~child.isError => r.result = Ok(child.value)
  /\ On("fork") =>
       (last.spawned # <<>> <=>
          (~WantsNamespaces(last.namespaces) /\ ~Registered))

\* a fork accepted while a destroy future is outstanding
C16_Witness ==
  /\ On("fork") /\ ~last.result.isError
  /\ last.waiting # EmptyBag
  /\ reaping # EmptyBag

\* C17: destroy returns a pending future at once, and as long as
\* process::reap settles every wait, the future of every destroy is settled
\* in the end, by the wait and by nothing else.
C17_DestroyEventuallySettles ==
  /\ \A pid \in Pids :
       (On("destroy") /\ Registered /\ last.before[last.containerId] = pid)
         ~> (On("_destroy") /\ last.pid = pid /\ last.future.state # "PENDING")
  /\ [](On("destroy") /\ Registered => last.result = Ok(Pending))
  /\ [][BagCardinality(reaping') < BagCardinality(reaping) =>
          last'.op = "_destroy" /\ last'.future.state # "PENDING"]_vars

C17_Witness ==
  /\ On("_destroy")
  /\ BagCardinality(last.waiting) = MaxDestroys
  /\ last.future.state = "FAILED"

\* C18: a destroy future waits on the pid that was registered when destroy
\* was called: several can be outstanding at once, the settling of one wait
\* settles one future for that pid and no other, with the outcome of that
\* wait, and leaves the registry as it is.
C18_FutureBoundToPid ==
  /\ (On("destroy") /\ Registered) =>
       reaping = last.waiting (+) SetToBag({last.before[last.containerId]})
  /\ On("_destroy") =>
       /\ BagIn(last.pid, last.waiting)
       /\ reaping = last.waiting (-) SetToBag({last.pid})
       /\ last.future.state = "READY" => last.result = Ok(Nothing)
       /\ last.future.state = "FAILED" => last.result.isError
       /\ pids = last.before

\* one of two outstanding futures settled, the other still pending, with an
\* entry in the registry
C18_Witness ==
  /\ On("_destroy")
  /\ BagCardinality(last.waiting) = 2
  /\ BagCardinality(reaping) = 1
  /\ ~BagIn(last.pid, reaping)
  /\ last.result.isError
  /\ pids # EmptyPids

\* C19: a destroy of a registered identity asks os::killtree once, for the
\* registered pid, with SIGKILL, groups and sessions, before it erases the
\* entry, and leaves every other entry as it was.
C19_KillTreeRequest ==
  (On("destroy") /\ Registered) =>
    /\ last.killed = <<[pid |-> last.before[last.containerId],
                        signal |-> "SIGKILL", groups |-> TRUE, sessions |-> TRUE]>>
    /\ \E i, j \in 1..Len(last.steps) :
         /\ i < j
         /\ last.steps[i] = "killtree"
         /\ last.steps[j] = "erase"
    /\ Cardinality({i \in 1..Len(last.steps) : last.steps[i] = "killtree"}) = 1
    /\ DOMAIN pids = DOMAIN last.before \ {last.containerId}
    /\ \A c \in DOMAIN pids : pids[c] = last.before[c]

C19_Witness ==
  /\ On("destroy") /\ Registered
  /\ Len(last.killed) = 1
  /\ pids # EmptyPids

\* C20: fork calls subprocess at most once, and only when the namespaces
\* check and then the pids.contains check have passed: a fork that fails
\* with the already-launched error has not spawned, and a fork that asks for
\* namespaces on a registered identity fails with capability-unsupported.
C20_SpawnAfterValidation ==
  On("fork") =>
    /\ Len(last.spawned) <= 1
    /\ last.spawned # <<>> => (~WantsNamespaces(last.namespaces) /\ ~Registered)
    /\ AlreadyLaunched(last.result) => last.spawned = <<>>
    /\ (WantsNamespaces(last.namespaces) /\ Registered) =>
         (CapabilityUnsupported(last.result) /\ ~AlreadyLaunched(last.result))

C20_Witness ==
  /\ On("fork")
  /\ AlreadyLaunched(last.result)
  /\ ~last.child.isError
  /\ last.spawned = <<>>
  /\ last.namespaces = Some(0)
====
